---- MODULE Spec2Model ----
(***************************************************************************)
(* Model of the SBT registry contract (contracts/registry/src/lib.rs).     *)
(*                                                                         *)
(* Every public call is one atomic step (a NEAR function call).  A call    *)
(* that panics leaves the contract state as it was: the runtime discards   *)
(* the writes of a failed call.  The variable `last` records the call that *)
(* was made last and what it returned; `issued`, `registered`, `reserved`   *)
(* and `minted` are history variables used only to state properties.       *)
(***************************************************************************)
EXTENDS Integers, Sequences, FiniteSets, TLC

\* ------------------------------------------------------------------ bounds
\* next_ctr_id is a u64; registrations stop once it passed MaxCtrId
MaxCtrId == 2
\* total number of tokens minted by all issuers together (counters are u64)
MaxSupply == 2
\* number of (owner, requests) pairs in one mint batch
MaxBatch == 2

\* ------------------------------------------------------------------ inputs
admin == "sbt.near"
Issuers == {"sbt1.near", "sbt2.near"}
Owners == {"alice.near", "bob.near"}
Accounts == {admin} \cup Issuers \cup Owners
\* accounts that call the admin-only methods: the admin and somebody else
AdminCallers == {admin, "sbt1.near"}
\* accounts the admin bans
BanTargets == {"bob.near"}
\* destinations of a soul transfer: an account that is banned in some states
TransferTargets == {"bob.near"}
\* accounts ctr_id is asked about: registered in some states, not in others
ResolveTargets == {"sbt1.near"}
\* class ids carried by the token metadata
Classes == {1}

\* ------------------------------------------------------------------ maps
\* A LookupMap / UnorderedMap is a function on the set of its keys.
EmptyMap == <<>>

Get(m, k, default) == IF k \in DOMAIN m THEN m[k] ELSE default

Insert(m, k, v) == (k :> v) @@ m

VARIABLES
    sbt_contracts,      \* AccountId -> CtrId
    sbt_contracts_keys, \* the key vector of the UnorderedMap sbt_contracts
    ctr_id_map,         \* CtrId -> AccountId (reverse index)
    banlist,            \* set of AccountId
    balances,           \* AccountId -> (CtrClassId -> TokenId)
    ctr_tokens,         \* CtrTokenId -> TokenData
    next_token_ids,     \* CtrId -> TokenId
    next_ctr_id,        \* CtrId
    ongoing_soul_tx,    \* AccountId -> CtrTokenId
    last,               \* history: the last call and its result
    issued,             \* history: the issuer ids handed out, in order
    registered,         \* history: AccountId -> the id it was handed out last
    reserved,           \* history: CtrId -> token ids reserved by next_token_id
    minted              \* history: AccountId -> tokens minted by committed calls

state == <<sbt_contracts, sbt_contracts_keys, ctr_id_map, banlist, balances,
           ctr_tokens, next_token_ids, next_ctr_id, ongoing_soul_tx>>

history == <<issued, registered, reserved, minted>>

vars == <<state, history, last>>

NoPanic == ""

Call(op, caller, arg, panic, ret, allocs) ==
    [op |-> op, caller |-> caller, arg |-> arg, panic |-> panic, ret |-> ret,
     allocs |-> allocs]

\* ------------------------------------------------------------------ init
new ==
    /\ sbt_contracts = EmptyMap
    /\ sbt_contracts_keys = <<>>
    /\ ctr_id_map = EmptyMap
    /\ banlist = {}
    /\ balances = EmptyMap
    /\ ctr_tokens = EmptyMap
    /\ next_token_ids = EmptyMap
    /\ next_ctr_id = 1
    /\ ongoing_soul_tx = EmptyMap

Init ==
    /\ new
    /\ last = Call("new", admin, admin, NoPanic, TRUE, <<>>)
    /\ issued = <<>>
    /\ registered = EmptyMap
    /\ reserved = EmptyMap
    /\ minted = [a \in Accounts |-> 0]

\* ------------------------------------------------------------------ internal
\* faulty variant: the admin check is left out
assert_admin_skipped(caller) == TRUE

assert_admin(caller) == admin = caller

assert_not_banned(owner) == owner \notin banlist

assert_issuer(contract) == contract \in DOMAIN sbt_contracts

\* ctr_id panics ("SBT Issuer not found") when ctr_id_found is false
ctr_id_found(ctr) == ctr \in DOMAIN sbt_contracts

\* faulty variant: the id is looked up in the reverse index
ctr_id_by_reverse_index(ctr) ==
    CHOOSE i \in DOMAIN ctr_id_map : ctr_id_map[i] = ctr

ctr_id(ctr) == sbt_contracts[ctr]

\* a call of ctr_id(ctr), which reads sbt_contracts and writes nothing
ctr_id_call(ctr) ==
    /\ UNCHANGED <<state, history>>
    /\ last' = IF ctr_id_found(ctr)
               THEN Call("ctr_id", ctr, ctr, NoPanic, ctr_id(ctr), <<>>)
               ELSE Call("ctr_id", ctr, ctr, "SBT Issuer not found", 0, <<>>)

\* faulty variant: returns the counter itself, not the id after it
next_token_id_returns_tid(ids, ctrid, num) ==
    LET tid == Get(ids, ctrid, 0)
    IN  [next_token_ids |-> Insert(ids, ctrid, tid + num), ret |-> tid]

\* faulty variant: one counter, kept under key 0, is shared by all issuers
next_token_id_shared(ids, ctrid, num) ==
    LET tid == Get(ids, 0, 0)
    IN  [next_token_ids |-> Insert(Insert(ids, ctrid, tid + num), 0, tid + num),
         ret |-> tid + 1]

\* faulty variant: the counter is written back as it was read
next_token_id_not_advanced(ids, ctrid, num) ==
    LET tid == Get(ids, ctrid, 0)
    IN  [next_token_ids |-> Insert(ids, ctrid, tid), ret |-> tid + 1]

\* the counter and the returned token id of next_token_id(ctr_id, num)
next_token_id(ids, ctrid, num) ==
    LET tid == Get(ids, ctrid, 0)
    IN  [next_token_ids |-> Insert(ids, ctrid, tid + num), ret |-> tid + 1]

\* ------------------------------------------------------------------ queries
sbt_contracts_query == sbt_contracts_keys

\* ------------------------------------------------------------------ admin
\* faulty variant: next_ctr_id is not advanced
admin_add_sbt_issuer_same_id(caller, issuer) ==
    /\ Len(issued) <= MaxCtrId
    /\ assert_admin(caller)
    /\ sbt_contracts' = Insert(sbt_contracts, issuer, next_ctr_id)
    /\ sbt_contracts_keys' =
           IF issuer \in DOMAIN sbt_contracts
           THEN sbt_contracts_keys
           ELSE Append(sbt_contracts_keys, issuer)
    /\ ctr_id_map' = Insert(ctr_id_map, next_ctr_id, issuer)
    /\ next_ctr_id' = next_ctr_id
    /\ last' = Call("admin_add_sbt_issuer", caller, issuer, NoPanic,
                    issuer \notin DOMAIN sbt_contracts, <<>>)
    /\ issued' = Append(issued, sbt_contracts'[issuer])
    /\ registered' = Insert(registered, issuer, sbt_contracts'[issuer])
    /\ UNCHANGED <<banlist, balances, ctr_tokens, next_token_ids,
                   ongoing_soul_tx, reserved, minted>>

\* faulty variant: the account is listed again at every registration
admin_add_sbt_issuer_lists_again(caller, issuer) ==
    /\ next_ctr_id <= MaxCtrId
    /\ assert_admin(caller)
    /\ sbt_contracts' = Insert(sbt_contracts, issuer, next_ctr_id)
    /\ sbt_contracts_keys' = Append(sbt_contracts_keys, issuer)
    /\ ctr_id_map' = Insert(ctr_id_map, next_ctr_id, issuer)
    /\ next_ctr_id' = next_ctr_id + 1
    /\ last' = Call("admin_add_sbt_issuer", caller, issuer, NoPanic,
                    issuer \notin DOMAIN sbt_contracts, <<>>)
    /\ issued' = Append(issued, sbt_contracts'[issuer])
    /\ registered' = Insert(registered, issuer, sbt_contracts'[issuer])
    /\ UNCHANGED <<banlist, balances, ctr_tokens, next_token_ids,
                   ongoing_soul_tx, reserved, minted>>

admin_add_sbt_issuer(caller, issuer) ==
    /\ next_ctr_id <= MaxCtrId
    /\ IF ~assert_admin(caller)
       THEN /\ UNCHANGED <<state, history>>
            /\ last' = Call("admin_add_sbt_issuer", caller, issuer,
                            "not an admin", FALSE, <<>>)
       ELSE /\ sbt_contracts' = Insert(sbt_contracts, issuer, next_ctr_id)
            /\ sbt_contracts_keys' =
                   IF issuer \in DOMAIN sbt_contracts
                   THEN sbt_contracts_keys
                   ELSE Append(sbt_contracts_keys, issuer)
            /\ ctr_id_map' = Insert(ctr_id_map, next_ctr_id, issuer)
            /\ next_ctr_id' = next_ctr_id + 1
            /\ last' = Call("admin_add_sbt_issuer", caller, issuer, NoPanic,
                            issuer \notin DOMAIN sbt_contracts, <<>>)
            /\ issued' = Append(issued, sbt_contracts'[issuer])
            /\ registered' = Insert(registered, issuer, sbt_contracts'[issuer])
            /\ UNCHANGED <<banlist, balances, ctr_tokens, next_token_ids,
                           ongoing_soul_tx, reserved, minted>>

\* ------------------------------------------------------------------ transfer
\* faulty variant: the position read is stored as the cursor and the call
\* returns "not finished" instead of aborting
sbt_soul_transfer_keeps_cursor(caller, to) ==
    LET start == Get(ongoing_soul_tx, to, [ctr_id |-> 0, token |-> 0])
    IN  /\ ongoing_soul_tx' = Insert(ongoing_soul_tx, to, start)
        /\ last' = Call("sbt_soul_transfer", caller, to, NoPanic,
                        [cursor_key |-> to, start |-> start,
                         returned |-> <<to, start.token, FALSE>>], <<>>)
        /\ UNCHANGED <<sbt_contracts, sbt_contracts_keys, ctr_id_map, banlist,
                       balances, ctr_tokens, next_token_ids, next_ctr_id,
                       history>>

\* The call reads the cursor stored under `to` and panics: it returns no
\* (AccountId, TokenId, bool); `returned` is the tuple returned, <<>> for none.
sbt_soul_transfer(caller, to) ==
    LET start == Get(ongoing_soul_tx, to, [ctr_id |-> 0, token |-> 0])
    IN  /\ UNCHANGED <<state, history>>
        /\ last' = Call("sbt_soul_transfer", caller, to, "not implemented",
                        [cursor_key |-> to, start |-> start, returned |-> <<>>],
                        <<>>)

\* ------------------------------------------------------------------ ban list
\* ban(account), administrator only
admin_ban(caller, account) ==
    /\ account \notin banlist
    /\ IF ~assert_admin(caller)
       THEN /\ UNCHANGED <<state, history>>
            /\ last' = Call("admin_ban", caller, account, "not an admin",
                            FALSE, <<>>)
       ELSE /\ banlist' = banlist \cup {account}
            /\ last' = Call("admin_ban", caller, account, NoPanic, TRUE, <<>>)
            /\ UNCHANGED <<sbt_contracts, sbt_contracts_keys, ctr_id_map,
                           balances, ctr_tokens, next_token_ids, next_ctr_id,
                           ongoing_soul_tx, history>>

\* ------------------------------------------------------------------ mint
\* the token ids of the range that starts at first and holds num ids
Range(first, num) == first .. (first + num - 1)

RECURSIVE SumOver(_, _)
SumOver(f, S) ==
    IF S = {} THEN 0
    ELSE LET x == CHOOSE y \in S : TRUE IN f[x] + SumOver(f, S \ {x})

TotalMinted == SumOver(minted, Accounts)

\* sequences of n token-creation requests (the metadata of each)
RECURSIVE Requests(_)
Requests(n) ==
    IF n = 0 THEN {<<>>}
    ELSE {Append(r, [class |-> c]) : r \in Requests(n - 1), c \in Classes}

\* batches of exactly len (owner, requests) pairs asking for at most cap tokens
RECURSIVE BatchesOf(_, _)
BatchesOf(len, cap) ==
    IF len = 0 THEN {<<>>}
    ELSE UNION {{<<<<o, r>>>> \o b : o \in Owners, r \in Requests(n),
                                     b \in BatchesOf(len - 1, cap - n)}
                : n \in 0 .. cap}

\* the batches of at most MaxBatch pairs, by the number of tokens they may ask
\* for; at most one pair of a batch asks for no token (an allocation of 0 ids)
BatchTable ==
    [cap \in 0 .. MaxSupply |->
        {b \in UNION {BatchesOf(len, cap) : len \in 0 .. MaxBatch} :
            Cardinality({k \in 1 .. Len(b) : b[k][2] = <<>>}) <= 1}]

Batches(cap) == BatchTable[cap]

RECURSIVE Total(_)
Total(token_spec) ==
    IF token_spec = <<>> THEN 0
    ELSE Len(Head(token_spec)[2]) + Total(Tail(token_spec))

\* put the token records of one (owner, requests) pair and upsert the owner index
RECURSIVE mint_requests(_, _, _, _, _, _)
mint_requests(st, cid, owner, reqs, first, j) ==
    IF j > Len(reqs) THEN st
    ELSE LET token == first + j - 1
             key == [ctr_id |-> cid, class_id |-> reqs[j].class]
             st1 == [st EXCEPT
                       !.toks = Insert(@, [ctr_id |-> cid, token |-> token],
                                       [owner |-> owner, metadata |-> reqs[j]]),
                       !.bal = Insert(@, owner,
                                      Insert(Get(@, owner, EmptyMap), key, token)),
                       !.ids = Append(@, token)]
         IN  mint_requests(st1, cid, owner, reqs, first, j + 1)

\* the pairs of a batch in the order given, from pair k on
RECURSIVE mint_pairs(_, _, _, _)
mint_pairs(st, cid, token_spec, k) ==
    IF k > Len(token_spec) THEN st
    ELSE LET owner == token_spec[k][1]
             reqs == token_spec[k][2]
             a == next_token_id(st.nti, cid, Len(reqs))
             st1 == [st EXCEPT
                       !.nti = a.next_token_ids,
                       !.allocs = Append(@, [ctr_id |-> cid,
                                             num |-> Len(reqs),
                                             before |-> Get(st.nti, cid, 0),
                                             ret |-> a.ret,
                                             after |-> Get(a.next_token_ids, cid, 0)])]
         IN  IF ~assert_not_banned(owner)
             THEN [st EXCEPT !.panic = "account is banned"]
             ELSE mint_pairs(mint_requests(st1, cid, owner, reqs, a.ret, 1),
                             cid, token_spec, k + 1)

RECURSIVE RangesOf(_)
RangesOf(allocs) ==
    IF allocs = <<>> THEN {}
    ELSE Range(Head(allocs).ret, Head(allocs).num) \cup RangesOf(Tail(allocs))

\* the writes, the returned ids and the allocations of a mint batch of issuer cid
mint_batch(cid, token_spec) ==
    mint_pairs([nti |-> next_token_ids, toks |-> ctr_tokens, bal |-> balances,
                ids |-> <<>>, allocs |-> <<>>, panic |-> NoPanic],
               cid, token_spec, 1)

\* the batches a caller mints: ctr_id panics before the batch of a caller that
\* is no issuer is read, so one batch stands for all of them
MintInputs(caller) ==
    IF ctr_id_found(caller) THEN Batches(MaxSupply - TotalMinted) ELSE {<<>>}

\* an aborted mint has no effect; its batch is not recorded.  The batches
\* MintInputs offers keep the supply within MaxSupply.
sbt_mint(caller, token_spec) ==
    /\ IF ~ctr_id_found(caller)
       THEN /\ UNCHANGED <<state, history>>
            /\ last' = Call("sbt_mint", caller, <<>>, "SBT Issuer not found",
                            <<>>, <<>>)
       ELSE \E st \in {mint_batch(ctr_id(caller), token_spec)} :
                IF st.panic # NoPanic
                THEN /\ UNCHANGED <<state, history>>
                     /\ last' = Call("sbt_mint", caller, <<>>, st.panic,
                                     <<>>, <<>>)
                ELSE /\ next_token_ids' = st.nti
                     /\ ctr_tokens' = st.toks
                     /\ balances' = st.bal
                     /\ reserved' = Insert(reserved, ctr_id(caller),
                                           Get(reserved, ctr_id(caller), {})
                                               \cup RangesOf(st.allocs))
                     /\ minted' = [minted EXCEPT
                                     ![caller] = @ + Total(token_spec)]
                     /\ last' = Call("sbt_mint", caller, token_spec, NoPanic,
                                     st.ids, st.allocs)
                     /\ UNCHANGED <<sbt_contracts, sbt_contracts_keys,
                                    ctr_id_map, banlist, next_ctr_id,
                                    ongoing_soul_tx, issued, registered>>

\* supply(issuer): the number of token records of the issuer, 0 for a stranger
sbt_supply(issuer) ==
    IF issuer \notin DOMAIN sbt_contracts THEN 0
    ELSE Cardinality({t \in DOMAIN ctr_tokens : t.ctr_id = sbt_contracts[issuer]})

\* ------------------------------------------------------------------ spec
Next ==
    \/ \E caller \in AdminCallers, issuer \in Issuers :
           admin_add_sbt_issuer(caller, issuer)
    \/ \E caller \in AdminCallers, account \in BanTargets :
           admin_ban(caller, account)
    \/ \E caller \in Issuers :
           \E token_spec \in MintInputs(caller) : sbt_mint(caller, token_spec)
    \/ \E caller \in Owners, to \in TransferTargets :
           sbt_soul_transfer(caller, to)
    \/ \E ctr \in ResolveTargets : ctr_id_call(ctr)

Spec == Init /\ [][Next]_vars

\* ------------------------------------------------------------------ claims
RegisteredIds == {sbt_contracts[a] : a \in DOMAIN sbt_contracts}

AddStep == last'.op = "admin_add_sbt_issuer"

\* C1: a call of admin_add_sbt_issuer by the admin for an account that is
\* already registered returns false, leaves the account's id, next_ctr_id and
\* both directions of the issuer mapping as they were.
C1_ReRegistrationIdempotent ==
    [][(AddStep /\ last'.panic = NoPanic /\ last'.arg \in DOMAIN sbt_contracts)
         => /\ last'.ret = FALSE
            /\ sbt_contracts'[last'.arg] = sbt_contracts[last'.arg]
            /\ next_ctr_id' = next_ctr_id
            /\ sbt_contracts' = sbt_contracts
            /\ ctr_id_map' = ctr_id_map]_vars

\* C2: sbt_contracts and ctr_id_map are mutual inverses: sbt_contracts[a] = i
\* exactly when ctr_id_map[i] = a, and the two maps have the same size.
C2_MutualInverses ==
    /\ \A a \in DOMAIN sbt_contracts :
           /\ sbt_contracts[a] \in DOMAIN ctr_id_map
           /\ ctr_id_map[sbt_contracts[a]] = a
    /\ \A i \in DOMAIN ctr_id_map :
           /\ ctr_id_map[i] \in DOMAIN sbt_contracts
           /\ sbt_contracts[ctr_id_map[i]] = i
    /\ Cardinality(DOMAIN sbt_contracts) = Cardinality(DOMAIN ctr_id_map)

\* C3: the first issuer id handed out is 1, every registration hands out an id
\* greater than every id handed out before, and no two distinct registered
\* accounts hold the same id.
C3_IdsIncreasingNeverReused ==
    /\ (issued # <<>> => issued[1] = 1)
    /\ \A j, k \in 1 .. Len(issued) : j < k => issued[j] < issued[k]
    /\ \A a, b \in DOMAIN sbt_contracts :
           a # b => sbt_contracts[a] # sbt_contracts[b]
    /\ (last.op = "admin_add_sbt_issuer" /\ last.panic = NoPanic
           => sbt_contracts[last.arg] = issued[Len(issued)])

\* C3 witness: two distinct accounts were registered, one after the other
C3_Witness ==
    /\ Len(issued) = 2
    /\ Cardinality(DOMAIN sbt_contracts) = 2
    /\ last.op = "admin_add_sbt_issuer"
    /\ last.ret = TRUE

\* C4: with n registered issuer accounts the ids assigned to them are exactly
\* 1 .. n.
C4_IdsDense == RegisteredIds = 1 .. Cardinality(DOMAIN sbt_contracts)

\* C5: admin_add_sbt_issuer called by an account that is not the admin fails
\* with "not an admin" and changes nothing of the contract state.
C5_AdminOnly ==
    [][(AddStep /\ last'.caller # admin)
         => /\ last'.panic = "not an admin"
            /\ UNCHANGED state]_vars

\* C5 witness: a stranger's registration was refused after one that succeeded
C5_Witness ==
    /\ last.op = "admin_add_sbt_issuer"
    /\ last.caller # admin
    /\ last.panic = "not an admin"
    /\ DOMAIN sbt_contracts # {}
    /\ last.arg \notin DOMAIN sbt_contracts

MintStep == last'.op = "sbt_mint" /\ last'.panic = NoPanic

MintDone == last.op = "sbt_mint" /\ last.panic = NoPanic

Counter(ids, ctrid) == Get(ids, ctrid, 0)

\* the ids reserved for the issuer before allocation k of the call
ReservedBefore(cid, allocs, k) ==
    Get(reserved, cid, {})
        \cup UNION {Range(allocs[j].ret, allocs[j].num) : j \in 1 .. k - 1}

\* C6: every allocation returns the issuer's counter + 1 and advances the
\* counter by num; the range it reserves is disjoint from, above and adjacent
\* to everything reserved for the issuer before (an allocation of num = 0
\* reserves nothing).
C6_AllocationsNeverOverlap ==
    [][MintStep =>
         LET cid == sbt_contracts[last'.caller]
             allocs == last'.allocs
         IN  /\ \A k \in 1 .. Len(allocs) :
                    LET a == allocs[k]
                        range == Range(a.ret, a.num)
                        before == ReservedBefore(cid, allocs, k)
                    IN  /\ a.before = IF k = 1 THEN Counter(next_token_ids, cid)
                                      ELSE allocs[k - 1].after
                        /\ a.ret = a.before + 1
                        /\ a.after = a.before + a.num
                        /\ Cardinality(range) = a.num
                        /\ range \cap before = {}
                        /\ \A x \in range, y \in before : y < x
                        /\ before \cup range = 1 .. a.after
             /\ Counter(next_token_ids', cid) =
                    IF allocs = <<>> THEN Counter(next_token_ids, cid)
                    ELSE allocs[Len(allocs)].after
             /\ reserved'[cid] = 1 .. Counter(next_token_ids', cid)]_vars

\* C6 witness: a batch of an issuer that minted before made an allocation of no
\* id and an allocation of at least one id
C6_Witness ==
    /\ MintDone
    /\ Len(last.allocs) >= 2
    /\ last.allocs[1].before >= 1
    /\ \E k \in 1 .. Len(last.allocs) : last.allocs[k].num = 0
    /\ \E k \in 1 .. Len(last.allocs) : last.allocs[k].num >= 1

\* the requests of a batch in the order of the pairs and of the requests in each
RECURSIVE Flatten(_)
Flatten(token_spec) ==
    IF token_spec = <<>> THEN <<>>
    ELSE LET owner == Head(token_spec)[1]
             reqs == Head(token_spec)[2]
         IN  [j \in 1 .. Len(reqs) |-> [owner |-> owner, metadata |-> reqs[j]]]
                 \o Flatten(Tail(token_spec))

\* C7: a mint batch of a registered issuer returns one token id per requested
\* token, in the order of the pairs and of the requests in each pair, and the
\* ids are the consecutive integers that start at the issuer's counter + 1.
C7_MintPreservesOrder ==
    MintDone =>
        LET cid == sbt_contracts[last.caller]
            flat == Flatten(last.arg)
            ids == last.ret
        IN  /\ Len(ids) = Len(flat)
            /\ \A k \in 1 .. Len(ids) :
                   /\ ids[k] = last.allocs[1].before + k
                   /\ [ctr_id |-> cid, token |-> ids[k]] \in DOMAIN ctr_tokens
                   /\ ctr_tokens[[ctr_id |-> cid, token |-> ids[k]]] = flat[k]

\* C7 witness: a fresh issuer minted for alice, then bob, and got [1, 2]
C7_Witness ==
    /\ MintDone
    /\ Len(last.arg) = 2
    /\ last.arg[1][1] = "alice.near" /\ Len(last.arg[1][2]) = 1
    /\ last.arg[2][1] = "bob.near" /\ Len(last.arg[2][2]) = 1
    /\ last.ret = <<1, 2>>

\* C8: a mint of issuer i changes the counter of issuer i alone, and the first
\* token id an issuer mints is 1 whatever the other issuers minted before.
C8_NumberingPerIssuer ==
    [][MintStep =>
         LET cid == sbt_contracts[last'.caller]
         IN  /\ DOMAIN next_token_ids' \ {cid} = DOMAIN next_token_ids \ {cid}
             /\ \A j \in DOMAIN next_token_ids \ {cid} :
                    next_token_ids'[j] = next_token_ids[j]
             /\ (Get(reserved, cid, {}) = {} /\ last'.ret # <<>>
                    => last'.ret[1] = 1)]_vars

\* C8 witness: an issuer minted its first token, id 1, after another issuer
\* had minted
C8_Witness ==
    /\ MintDone
    /\ last.ret # <<>>
    /\ last.ret[1] = 1
    /\ last.allocs[1].before = 0
    /\ \E j \in DOMAIN next_token_ids :
           j # sbt_contracts[last.caller] /\ next_token_ids[j] >= 1

CounterNeverDecreases ==
    \A c \in DOMAIN next_token_ids :
        /\ c \in DOMAIN next_token_ids'
        /\ next_token_ids'[c] >= next_token_ids[c]

\* C9 as claimed: the counter of an issuer is at least the largest token id
\* returned or reserved for that issuer, and never decreases.
C9_CounterCoversReturned ==
    /\ [](/\ \A c \in DOMAIN reserved :
                 \A t \in reserved[c] : t <= Counter(next_token_ids, c)
          /\ MintDone =>
                 \A k \in 1 .. Len(last.allocs) :
                     last.allocs[k].ret
                         <= Counter(next_token_ids, last.allocs[k].ctr_id))
    /\ [][CounterNeverDecreases]_vars

\* C9 amended: the counter of an issuer is at least the largest token id
\* reserved for that issuer (a returned id is reserved when num >= 1; the id
\* returned for num = 0 is the counter + 1), and never decreases.
C9_CounterCoversReserved ==
    /\ [](/\ \A c \in DOMAIN reserved :
                 \A t \in reserved[c] : t <= Counter(next_token_ids, c)
          /\ MintDone =>
                 \A k \in 1 .. Len(last.allocs) :
                     LET a == last.allocs[k]
                     IN  IF a.num >= 1
                         THEN a.ret + a.num - 1
                                  <= Counter(next_token_ids, a.ctr_id)
                         ELSE a.ret = a.after + 1)
    /\ [][CounterNeverDecreases]_vars

\* C9 witness: the last allocation of a batch reserved nothing and returned
\* the id after the counter of an issuer that holds reserved ids
C9_Witness ==
    /\ MintDone
    /\ last.allocs # <<>>
    /\ LET a == last.allocs[Len(last.allocs)]
       IN  /\ a.num = 0
           /\ a.ret = Counter(next_token_ids, a.ctr_id) + 1
           /\ Get(reserved, a.ctr_id, {}) # {}

\* C10: sbt_supply(issuer) is the number of tokens the issuer minted in all
\* its committed mint calls, and 0 for an account that never minted.
C10_SupplyIsMinted == \A a \in Accounts : sbt_supply(a) = minted[a]

TransferStep == last'.op = "sbt_soul_transfer"

TransferDone == last.op = "sbt_soul_transfer"

\* the owner-index entries of an account
Entries(a) == DOMAIN Get(balances, a, EmptyMap)

\* a transfer call returned completed = true
Completed == last.ret.returned # <<>> /\ last.ret.returned[3] = TRUE

\* C11: the transfer cursor is keyed by the source account: a call by source S
\* to destination D reads and writes only the cursor stored under S.
C11_CursorKeyedBySource ==
    TransferDone => last.ret.cursor_key = last.caller

\* C12: a call of sbt_soul_transfer by a source that holds tokens, to another
\* account that is not banned, does not abort (so that repeated calls can end
\* with completed = true), and once it returns completed = true the source has
\* no owner-index entry left and no cursor remains for the transfer.
C12_TransferCompletes ==
    (/\ TransferDone
     /\ last.caller # last.arg
     /\ last.arg \notin banlist
     /\ Entries(last.caller) # {})
        => /\ last.panic = NoPanic
           /\ last.ret.returned # <<>>
           /\ (Completed => /\ Entries(last.caller) = {}
                            /\ last.caller \notin DOMAIN ongoing_soul_tx)

\* C13: a soul transfer whose destination is banned fails with the banned
\* recipient error of assert_not_banned and changes no state, and no transfer
\* makes a banned account the owner of a token.
C13_BannedRecipientRefused ==
    /\ []((TransferDone /\ last.arg \in banlist)
             => last.panic = "account is banned")
    /\ [][(TransferStep /\ last'.arg \in banlist) => UNCHANGED state]_vars
    /\ [][TransferStep =>
             \A t \in DOMAIN ctr_tokens' :
                 ctr_tokens'[t].owner \in banlist'
                     => /\ t \in DOMAIN ctr_tokens
                        /\ ctr_tokens[t].owner = ctr_tokens'[t].owner]_vars

\* C14: in the state a completed transfer leaves (the source holds no entry and
\* no cursor is stored), a call of sbt_soul_transfer with the same destination
\* is a no-op that returns a result instead of panicking, and creates no cursor.
C14_ReinvokeIsNoOp ==
    (/\ TransferDone
     /\ last.caller # last.arg
     /\ last.arg \notin banlist
     /\ Entries(last.caller) = {})
        => /\ last.panic = NoPanic
           /\ ongoing_soul_tx = EmptyMap

TimesListed(a) ==
    Cardinality({k \in 1 .. Len(sbt_contracts_query) : sbt_contracts_query[k] = a})

\* C15: an account that was registered stays registered (ctr_id succeeds for
\* it and assert_issuer passes), and sbt_contracts() lists every registered
\* account exactly once, however many times it was registered.
C15_IssuersNeverDeleted ==
    /\ \A a \in DOMAIN registered :
           /\ ctr_id_found(a)
           /\ assert_issuer(a)
           /\ TimesListed(a) = 1
    /\ \A k \in 1 .. Len(sbt_contracts_query) :
           sbt_contracts_query[k] \in DOMAIN registered

\* C15 witness: an account was registered twice and another call went by
C15_Witness ==
    /\ Len(issued) = 2
    /\ Cardinality(DOMAIN registered) = 1
    /\ last.op # "admin_add_sbt_issuer"

\* C16: ctr_id fails with "SBT Issuer not found" exactly when the account is
\* not registered, returns the id stored for a registered account, and changes
\* no state.
C16_ResolveIssuerId ==
    /\ [](last.op = "ctr_id" =>
             /\ (last.panic = "SBT Issuer not found")
                    <=> (last.arg \notin DOMAIN registered)
             /\ last.arg \in DOMAIN registered =>
                    /\ last.panic = NoPanic
                    /\ last.ret = registered[last.arg]
                    /\ last.ret = sbt_contracts[last.arg])
    /\ [][last'.op = "ctr_id" => UNCHANGED state]_vars

\* C16 witness: ctr_id returned id 2 for an account that was registered twice
C16_Witness ==
    /\ last.op = "ctr_id"
    /\ last.panic = NoPanic
    /\ last.ret = 2
    /\ Cardinality(DOMAIN registered) = 1

\* C17: for every registered account a, ctr_id_map[sbt_contracts[a]] = a, and
\* next_ctr_id is greater than every id that is a value of sbt_contracts or a
\* key of ctr_id_map.
C17_ForwardConsistentAndFresh ==
    /\ \A a \in DOMAIN sbt_contracts :
           /\ sbt_contracts[a] \in DOMAIN ctr_id_map
           /\ ctr_id_map[sbt_contracts[a]] = a
    /\ \A i \in RegisteredIds \cup DOMAIN ctr_id_map : i < next_ctr_id

\* C17 witness: a re-registration left a second reverse-index entry
C17_Witness ==
    /\ last.op = "admin_add_sbt_issuer"
    /\ last.panic = NoPanic
    /\ last.ret = FALSE
    /\ Cardinality(DOMAIN ctr_id_map) = 2
    /\ Cardinality(DOMAIN sbt_contracts) = 1

====
